---- MODULE Spec2Model ----
(***************************************************************************)
(* Deadman's Tip: the per-channel game engine of src/src/index.ts.         *)
(*                                                                         *)
(* The bot keeps one GameState object per channel in the Map `games`.      *)
(* Every handler is an async function: it runs atomically up to its next   *)
(* `await` (JavaScript runs one continuation at a time) and is resumed     *)
(* later, while other handlers may have run in between.  A handler that is *)
(* suspended at an await after it has written to the game keeps references *)
(* to the GameState object and to the current Player object; it is an      *)
(* element of `inflight`.  Two awaits that follow each other with no       *)
(* access to the game between them other than reading the pot for the      *)
(* message text (image generation, then the message that carries the       *)
(* image) are one suspension.  The Map eligiblePlayers is written by       *)
(* bot.onTip and read nowhere; it is left out.                             *)
(*                                                                         *)
(* Amounts are counted in units of 0.00025 ETH (250000000000000 wei), so   *)
(* that PASS_BURN = parseEther('0.0005') is 2 and GRIT_BONUS =             *)
(* parseEther('0.001') is 4.  bigint arithmetic never overflows.           *)
(***************************************************************************)
EXTENDS Integers, Sequences, FiniteSets, Bags, TLC

\* ------------------------------------------------------------------ bounds
MaxInFlight == 2    \* handlers suspended at an await at the same time
MaxPot      == 4    \* a surviving shoot is explored only while the pot stays within this
MaxRun      == 3    \* the run of accepted passes is counted up to this
MaxObjects  == 1    \* GameState objects alive at the same time

\* --------------------------------------------------------------- constants
PASS_BURN  == 2
GRIT_BONUS == 4

botId == "bot"

\* ------------------------------------------------------------------ inputs
Channels  == {"ch"}
Users     == {"a", "A", "b", "c"}
Receivers == {"BOT", "eve"}
Amounts   == {1, 2}
\* the tip senders: user id and smart account address
Senders   == { <<"a", "x">>, <<"b", "y">>, <<"c", "z">>, <<"a", "Z">> }

\* String.prototype.toLowerCase on the strings that occur
toLowerCase(s) ==
    CASE s = "A"   -> "a"
      [] s = "Z"   -> "z"
      [] s = "BOT" -> "bot"
      [] OTHER     -> s

VARIABLES
    games,      \* the Map games: channelId -> reference to a GameState (0: no entry)
    heap,       \* the GameState objects, by reference
    inflight,   \* bag of the handlers suspended at an await
    reply,      \* what the last handler step answered
    completed,  \* per game: accepted actions completed since start-game, modulo the
                \* number of players (kept only while no player is eliminated)
    run         \* history: the accepted passes in a row since the last accepted
                \* shoot or start-game, counted up to MaxRun

vars == <<games, heap, inflight, reply, completed, run>>

\* ------------------------------------------------------------ data types
NoRef == 0

\* the value of a slot that holds no object
Free == [players |-> <<>>, potBalance |-> 0, currentTurnIndex |-> 0,
         status |-> "free", winner |-> "null"]

\* the object literal with a turn index of 1
NewGame_indexOne == [players |-> <<>>, potBalance |-> 0, currentTurnIndex |-> 1,
                     status |-> "waiting", winner |-> "null"]

\* the object literal of bot.onTip
NewGame == [players |-> <<>>, potBalance |-> 0, currentTurnIndex |-> 0,
            status |-> "waiting", winner |-> "null"]

\* the player object enrolled already eliminated
NewPlayer_dead(userId, senderAddress) ==
    [userId |-> userId, smartAccountAddress |-> senderAddress,
     alive |-> FALSE, lastAction |-> "null"]

\* the object literal pushed by bot.onTip
NewPlayer(userId, senderAddress) ==
    [userId |-> userId, smartAccountAddress |-> senderAddress,
     alive |-> TRUE, lastAction |-> "null"]

\* the answer of a handler step: the event, its channel, the outcome and the
\* amount the message reports (the tip received, the burn of a pass, the pot
\* of the GAME OVER message)
Reply(ev, c, res, amount) == [ev |-> ev, channelId |-> c, res |-> res, amount |-> amount]

\* ---------------------------------------------------------------- helpers
\* Player objects are referenced by their position in game.players (players
\* are only ever appended); the alive players, in roster order.
getAlivePlayers(game) ==
    SelectSeq([i \in 1..Len(game.players) |-> i], LAMBDA i : game.players[i].alive)

\* position of the current player in game.players, 0 for null
getCurrentPlayer(game) ==
    LET alive == getAlivePlayers(game) IN
    IF Len(alive) = 0 THEN 0
    ELSE alive[(game.currentTurnIndex % Len(alive)) + 1]

checkForcedShoot(game) ==
    LET alive == getAlivePlayers(game) IN
    IF Len(alive) < 2 THEN FALSE
    ELSE \A k \in 1..Len(alive) : game.players[alive[k]].lastAction = "pass"

\* advanceTurn stepping over a player
advanceTurn_skip(game) ==
    LET alive == getAlivePlayers(game) IN
    IF Len(alive) > 0
    THEN [game EXCEPT !.currentTurnIndex = (game.currentTurnIndex + 2) % Len(alive)]
    ELSE game

advanceTurn(game) ==
    LET alive == getAlivePlayers(game) IN
    IF Len(alive) > 0
    THEN [game EXCEPT !.currentTurnIndex = (game.currentTurnIndex + 1) % Len(alive)]
    ELSE game

\* checkWinCondition with alive.length >= 1
checkWinCondition_atLeastOne(game) ==
    LET alive == getAlivePlayers(game) IN
    IF Len(alive) >= 1 THEN game.players[alive[1]].userId ELSE "null"

\* the winner's userId, "null" when there is none
checkWinCondition(game) ==
    LET alive == getAlivePlayers(game) IN
    IF Len(alive) = 1 THEN game.players[alive[1]].userId ELSE "null"

\* the reset clearing only the players that passed
resetLastAction_passedOnly(game) ==
    [game EXCEPT !.players =
        [i \in 1..Len(game.players) |->
            IF game.players[i].alive /\ game.players[i].lastAction = "pass"
            THEN [game.players[i] EXCEPT !.lastAction = "null"]
            ELSE game.players[i]]]

\* getAlivePlayers(game).forEach(p => p.lastAction = null)
resetLastAction(game) ==
    [game EXCEPT !.players =
        [i \in 1..Len(game.players) |->
            IF game.players[i].alive
            THEN [game.players[i] EXCEPT !.lastAction = "null"]
            ELSE game.players[i]]]

\* ------------------------------------------------------- object lifetime
Referenced(s, gs, fl) ==
    \/ \E c \in DOMAIN gs : gs[c] = s
    \/ \E h \in BagToSet(fl) : h.game = s

\* an object that neither the Map nor a suspended handler refers to is gone
Collect(hp, gs, fl) ==
    [s \in DOMAIN hp |-> IF Referenced(s, gs, fl) THEN hp[s] ELSE Free]

FreeSlots == {s \in DOMAIN heap : heap[s].status = "free"}
FirstFree == CHOOSE s \in FreeSlots : \A t \in FreeSlots : s <= t

AllAlive(game) == \A i \in 1..Len(game.players) : game.players[i].alive

\* a handler suspended at an await; pot remembers, for a fatal shot, the
\* potBalance the game had when the shot was taken (history, read by no
\* handler)
Handler(pc, c, g, p, pot) ==
    [pc |-> pc, channelId |-> c, game |-> g, player |-> p, pot |-> pot]

Init ==
    /\ games = [c \in Channels |-> NoRef]
    /\ heap = [s \in 1..MaxObjects |-> Free]
    /\ inflight = EmptyBag
    /\ reply = Reply("none", "none", "none", 0)
    /\ completed = [s \in 1..MaxObjects |-> 0]
    /\ run = 0

\* the run of accepted passes after a step that answers r
NextRun(r) ==
    IF r.ev = "pass" /\ r.res = "passed"
    THEN (IF run < MaxRun THEN run + 1 ELSE MaxRun)
    ELSE IF r.res \in {"bang", "click", "started"} THEN 0
    ELSE run

\* what a step leaves behind: the registry, the objects still referred to,
\* the suspended handlers and the answer
Commit(gs, hp, fl, r) ==
    /\ games' = gs
    /\ heap' = Collect(hp, gs, fl)
    /\ inflight' = fl
    /\ reply' = r
    /\ run' = NextRun(r)

\* the history counter: reset for freed objects
Count(new) ==
    completed' = [s \in DOMAIN heap |-> IF heap'[s].status = "free" THEN 0 ELSE new[s]]

\* ------------------------------------------------------------- bot.onTip
\* the status check that rejects only a finished game
notAccepting_finishedOnly(game) == game.status = "finished"

\* game.status !== 'waiting'
notAccepting(game) == game.status # "waiting"

\* the duplicate check requiring both the address and the user id to match
existingPlayer_both(game, userId, smartAccountAddress) ==
    \E i \in 1..Len(game.players) :
        /\ toLowerCase(game.players[i].smartAccountAddress) = smartAccountAddress
        /\ game.players[i].userId = userId

\* game.players.find(p => p.smartAccountAddress.toLowerCase() === smartAccountAddress
\*                        || p.userId === event.userId)
existingPlayer(game, userId, smartAccountAddress) ==
    \E i \in 1..Len(game.players) :
        \/ toLowerCase(game.players[i].smartAccountAddress) = smartAccountAddress
        \/ game.players[i].userId = userId

\* the enrollment crediting a flat entry of one unit instead of the tip
joinWrites_flatEntry(game, userId, senderAddress, amount) ==
    [game EXCEPT !.players = Append(game.players, NewPlayer(userId, senderAddress)),
                 !.potBalance = game.potBalance + 1]

\* game.players.push({...}); game.potBalance += event.amount
joinWrites(game, userId, senderAddress, amount) ==
    [game EXCEPT !.players = Append(game.players, NewPlayer(userId, senderAddress)),
                 !.potBalance = game.potBalance + amount]

\* the outcome of the handler: the registry, the objects and the answer
onTip(c, userId, senderAddress, receiverAddress, amount) ==
    IF toLowerCase(receiverAddress) # toLowerCase(botId)
    THEN [games |-> games, heap |-> heap, res |-> "tip_ignored"]
    ELSE
    LET created == games[c] = NoRef
        g       == IF created THEN FirstFree ELSE games[c]
        games1  == IF created THEN [games EXCEPT ![c] = g] ELSE games
        heap1   == IF created THEN [heap EXCEPT ![g] = NewGame] ELSE heap
        game    == heap1[g]
        smartAccountAddress == toLowerCase(senderAddress)
    IN
    IF notAccepting(game)
    THEN [games |-> games1, heap |-> heap1, res |-> "tip_wrong_status"]
    ELSE IF existingPlayer(game, userId, smartAccountAddress)
    THEN [games |-> games1, heap |-> heap1, res |-> "tip_already_joined"]
    ELSE [games |-> games1,
          heap  |-> [heap1 EXCEPT ![g] = joinWrites(game, userId, senderAddress, amount)],
          res   |-> "tip_joined"]

Tip(c, userId, senderAddress, receiverAddress, amount) ==
    /\ games[c] = NoRef /\ toLowerCase(receiverAddress) = toLowerCase(botId)
          => FreeSlots # {}
    /\ LET out == onTip(c, userId, senderAddress, receiverAddress, amount) IN
       /\ Commit(out.games, out.heap, inflight, Reply("tip", c, out.res, IF out.res = "tip_joined" THEN amount ELSE 0))
       /\ Count(completed)

\* -------------------------------------------- join-game and help commands
Info(c, ev) ==
    /\ Commit(games, heap, inflight, Reply(ev, c, "info", 0))
    /\ Count(completed)

\* ------------------------------------------------------ start-game command
\* the start threshold off by one
tooFewPlayers_one(game) == Len(game.players) < 1

\* game.players.length < 2
tooFewPlayers(game) == Len(game.players) < 2

\* the status check of start-game that rejects only an active game
notWaiting_activeOnly(game) == game.status = "active"

\* game.status !== 'waiting'
notWaiting(game) == game.status # "waiting"

onStartGame(c) ==
    LET g == games[c] game == heap[g] IN
    IF g = NoRef
    THEN [heap |-> heap, res |-> "start_no_game"]
    ELSE IF notWaiting(game)
    THEN [heap |-> heap, res |-> "start_wrong_status"]
    ELSE IF tooFewPlayers(game)
    THEN [heap |-> heap, res |-> "start_too_few"]
    ELSE [heap |-> [heap EXCEPT ![g] = [game EXCEPT !.status = "active",
                                                    !.currentTurnIndex = 0]],
          res  |-> "started"]

StartGame(c) ==
    LET out == onStartGame(c) IN
    /\ Commit(games, out.heap, inflight, Reply("start-game", c, out.res, 0))
    /\ Count(IF out.res = "started"
             THEN [completed EXCEPT ![games[c]] = 0] ELSE completed)

\* ----------------------------------------------------------- shoot command
\* the handler up to its first await: validation, the draw and the writes
\* that precede the image generation
shootValidate(c, userId) ==
    LET g == games[c]
        game == heap[g]
        currentPlayer == getCurrentPlayer(game)
    IN
    IF g = NoRef \/ game.status # "active" THEN "no_active_game"
    ELSE IF currentPlayer = 0 THEN "no_current_player"
    ELSE IF toLowerCase(game.players[currentPlayer].userId) # toLowerCase(userId)
    THEN "not_your_turn"
    ELSE IF ~game.players[currentPlayer].alive THEN "already_eliminated"
    ELSE "ok"

onShoot(c, userId, isDead) ==
    LET g == games[c]
        game == heap[g]
        currentPlayer == getCurrentPlayer(game)
        rejected == shootValidate(c, userId)
    IN
    IF rejected # "ok"
    THEN [heap |-> heap, spawn |-> EmptyBag, res |-> rejected]
    ELSE
    LET game1 == [game EXCEPT !.players[currentPlayer].lastAction = "shoot"]
        game2 == resetLastAction(game1)
    IN
    IF isDead
    THEN [heap  |-> [heap EXCEPT ![g] = [game2 EXCEPT !.players[currentPlayer].alive = FALSE]],
          spawn |-> SetToBag({Handler("bang", c, g, currentPlayer, game.potBalance)}),
          res   |-> "bang"]
    ELSE [heap  |-> [heap EXCEPT ![g] = [game2 EXCEPT !.potBalance = game2.potBalance + GRIT_BONUS]],
          spawn |-> SetToBag({Handler("click", c, g, currentPlayer, 0)}),
          res   |-> "click"]

Shoot(c, userId, isDead) ==
    LET out == onShoot(c, userId, isDead) IN
    /\ out.spawn # EmptyBag => BagCardinality(inflight) < MaxInFlight
    /\ out.res = "click" => out.heap[games[c]].potBalance <= MaxPot
    /\ Commit(games, out.heap, inflight (+) out.spawn, Reply("shoot", c, out.res, 0))
    /\ Count(IF out.res = "bang" THEN [completed EXCEPT ![games[c]] = 0] ELSE completed)

\* ------------------------------------------------------------ pass command
\* the handler up to its first await: validation, the forced-shoot check,
\* the lastAction write and the burn
\* the validation without the must-shoot check
passValidate_noMustShoot(c, userId) ==
    LET g == games[c]
        game == heap[g]
        currentPlayer == getCurrentPlayer(game)
    IN
    IF g = NoRef \/ game.status # "active" THEN "no_active_game"
    ELSE IF currentPlayer = 0 THEN "no_current_player"
    ELSE IF toLowerCase(game.players[currentPlayer].userId) # toLowerCase(userId)
    THEN "not_your_turn"
    ELSE IF ~game.players[currentPlayer].alive THEN "already_eliminated"
    ELSE "ok"

\* the validation of the handler: the rejection, or "ok"
passValidate(c, userId) ==
    LET g == games[c]
        game == heap[g]
        currentPlayer == getCurrentPlayer(game)
        alive == getAlivePlayers(game)
        otherPlayers == SelectSeq(alive, LAMBDA i : game.players[i].userId # userId)
        allOthersPassed ==
            /\ Len(otherPlayers) > 0
            /\ \A k \in 1..Len(otherPlayers) :
                   game.players[otherPlayers[k]].lastAction = "pass"
    IN
    IF g = NoRef \/ game.status # "active" THEN "no_active_game"
    ELSE IF currentPlayer = 0 THEN "no_current_player"
    ELSE IF toLowerCase(game.players[currentPlayer].userId) # toLowerCase(userId)
    THEN "not_your_turn"
    ELSE IF ~game.players[currentPlayer].alive THEN "already_eliminated"
    ELSE IF allOthersPassed THEN "must_shoot"
    ELSE "ok"

\* the burn without the clamp to the pot
burnAmount_noClamp(potBalance) == PASS_BURN

\* game.potBalance >= PASS_BURN ? PASS_BURN : game.potBalance
burnAmount(potBalance) ==
    IF potBalance >= PASS_BURN THEN PASS_BURN ELSE potBalance

\* the burn without the lastAction write
passWrites_noMark(game, currentPlayer) ==
    [game EXCEPT !.potBalance = game.potBalance - burnAmount(game.potBalance)]

\* currentPlayer.lastAction = 'pass' and the burn
passWrites(game, currentPlayer) ==
    [game EXCEPT !.players[currentPlayer].lastAction = "pass",
                 !.potBalance = game.potBalance - burnAmount(game.potBalance)]

\* the handler writing lastAction and the burn before the forced-shoot check
onPass_burnFirst(c, userId) ==
    LET g == games[c]
        game == heap[g]
        currentPlayer == getCurrentPlayer(game)
        rejected == passValidate(c, userId)
        written == [heap EXCEPT ![g] = passWrites(game, currentPlayer)]
    IN
    IF rejected = "must_shoot"
    THEN [heap |-> written, spawn |-> EmptyBag, res |-> rejected, burn |-> 0]
    ELSE IF rejected # "ok"
    THEN [heap |-> heap, spawn |-> EmptyBag, res |-> rejected, burn |-> 0]
    ELSE [heap  |-> written,
          spawn |-> SetToBag({Handler("pass", c, g, currentPlayer, 0)}),
          res   |-> "passed",
          burn  |-> burnAmount(game.potBalance)]

onPass(c, userId) ==
    LET g == games[c]
        game == heap[g]
        currentPlayer == getCurrentPlayer(game)
        rejected == passValidate(c, userId)
    IN
    IF rejected # "ok"
    THEN [heap |-> heap, spawn |-> EmptyBag, res |-> rejected, burn |-> 0]
    ELSE [heap  |-> [heap EXCEPT ![g] = passWrites(game, currentPlayer)],
          spawn |-> SetToBag({Handler("pass", c, g, currentPlayer, 0)}),
          res   |-> "passed",
          burn  |-> burnAmount(game.potBalance)]

Pass(c, userId) ==
    LET out == onPass(c, userId) IN
    /\ out.spawn # EmptyBag => BagCardinality(inflight) < MaxInFlight
    /\ Commit(games, out.heap, inflight (+) out.spawn, Reply("pass", c, out.res, out.burn))
    /\ Count(completed)

\* ------------------------------------------- continuations after an await
\* one more accepted action is complete (counted while no one is eliminated)
Done(g, game) ==
    [completed EXCEPT ![g] = IF AllAlive(game) THEN (completed[g] + 1) % Len(game.players)
                             ELSE 0]

\* shoot, after the BANG image and message: the win check, then either the
\* end of the game or the turn advance
ResumeBang(h) ==
    /\ h \in BagToSet(inflight) /\ h.pc = "bang"
    /\ LET game == heap[h.game]
           winner == checkWinCondition(game)
           rest == inflight (-) SetToBag({h})
       IN
       IF winner # "null"
       THEN /\ Commit(games,
                      [heap EXCEPT ![h.game] = [game EXCEPT !.status = "finished",
                                                            !.winner = winner]],
                      rest (+) SetToBag({Handler("over", h.channelId, h.game, h.player, 0)}),
                      Reply("resume", h.channelId, "game_over", game.potBalance))
            /\ Count(completed)
       ELSE /\ Commit(games, [heap EXCEPT ![h.game] = advanceTurn(game)], rest,
                      Reply("resume", h.channelId,
                            IF getCurrentPlayer(advanceTurn(game)) # 0
                            THEN "next_turn" ELSE "silent", 0))
            /\ Count(completed)

\* the removal clearing the whole Map
ResumeOver_clearAll(h) ==
    /\ h \in BagToSet(inflight) /\ h.pc = "over"
    /\ Commit([c \in DOMAIN games |-> NoRef], heap, inflight (-) SetToBag({h}),
              Reply("resume", h.channelId, "removed", 0))
    /\ Count(completed)

\* shoot, after the GAME OVER message: games.delete(channelId)
ResumeOver(h) ==
    /\ h \in BagToSet(inflight) /\ h.pc = "over"
    /\ Commit([games EXCEPT ![h.channelId] = NoRef], heap, inflight (-) SetToBag({h}),
              Reply("resume", h.channelId, "removed", 0))
    /\ Count(completed)

\* the continuation of a click adding the grit bonus a second time
ResumeClick_bonusAgain(h) ==
    /\ h \in BagToSet(inflight) /\ h.pc = "click"
    /\ LET game == [heap[h.game] EXCEPT !.potBalance = @ + GRIT_BONUS] IN
       /\ Commit(games, [heap EXCEPT ![h.game] = advanceTurn(game)],
                 inflight (-) SetToBag({h}),
                 Reply("resume", h.channelId,
                       IF getCurrentPlayer(advanceTurn(game)) # 0
                       THEN "next_turn" ELSE "silent", 0))
       /\ Count(Done(h.game, game))

\* shoot, after the CLICK image and message: the turn advance
ResumeClick(h) ==
    /\ h \in BagToSet(inflight) /\ h.pc = "click"
    /\ LET game == heap[h.game] IN
       /\ Commit(games, [heap EXCEPT ![h.game] = advanceTurn(game)],
                 inflight (-) SetToBag({h}),
                 Reply("resume", h.channelId,
                       IF getCurrentPlayer(advanceTurn(game)) # 0
                       THEN "next_turn" ELSE "silent", 0))
       /\ Count(Done(h.game, game))

\* pass, after the burn message: the turn advance and the forced-shoot trigger
ResumePass(h) ==
    /\ h \in BagToSet(inflight) /\ h.pc = "pass"
    /\ LET game == heap[h.game]
           game1 == advanceTurn(game)
           allJustPassed == checkForcedShoot(game1)
           nextPlayer == getCurrentPlayer(game1)
           forced == nextPlayer # 0 /\ allJustPassed
       IN
       /\ Commit(games,
                 [heap EXCEPT ![h.game] = IF forced THEN resetLastAction(game1) ELSE game1],
                 inflight (-) SetToBag({h}),
                 Reply("resume", h.channelId,
                       IF nextPlayer = 0 THEN "silent"
                       ELSE IF allJustPassed THEN "forced_shoot" ELSE "next_turn", 0))
       /\ Count(Done(h.game, game))

\* ----------------------------------------------------- game-status command
onGameStatus(c) ==
    IF games[c] = NoRef THEN "status_none"
    ELSE CASE heap[games[c]].status = "waiting"  -> "status_waiting"
           [] heap[games[c]].status = "active"   -> "status_active"
           [] heap[games[c]].status = "finished" -> "status_finished"

GameStatus(c) ==
    /\ Commit(games, heap, inflight, Reply("game-status", c, onGameStatus(c), 0))
    /\ Count(completed)

\* ---------------------------------------------------------- specification
Next ==
    \/ \E c \in Channels, s \in Senders, r \in Receivers, amount \in Amounts :
           Tip(c, s[1], s[2], r, amount)
    \/ \E c \in Channels, ev \in {"join-game", "help"} : Info(c, ev)
    \/ \E c \in Channels : StartGame(c)
    \/ \E c \in Channels, u \in Users, isDead \in BOOLEAN : Shoot(c, u, isDead)
    \/ \E c \in Channels, u \in Users : Pass(c, u)
    \/ \E c \in Channels : GameStatus(c)
    \/ \E h \in BagToSet(inflight) : ResumeBang(h)
    \/ \E h \in BagToSet(inflight) : ResumeOver(h)
    \/ \E h \in BagToSet(inflight) : ResumeClick(h)
    \/ \E h \in BagToSet(inflight) : ResumePass(h)

Spec == Init /\ [][Next]_vars

TypeOK ==
    /\ \A c \in DOMAIN games : games[c] \in DOMAIN heap \cup {NoRef}
    /\ \A s \in DOMAIN heap : heap[s].status \in {"free", "waiting", "active", "finished"}
    /\ BagCardinality(inflight) <= MaxInFlight

\* ================================================================= claims
Stored(c) == games[c] # NoRef
GameOf(c) == heap[games[c]]
AliveCount(game) == Len(getAlivePlayers(game))

\* a handler that still has writes to its GameState ahead of it
MidTransition(h) == h.pc \in {"bang", "click", "pass"}

Rejections ==
    {"tip_wrong_status", "tip_already_joined",
     "start_no_game", "start_wrong_status", "start_too_few",
     "no_active_game", "no_current_player", "not_your_turn", "already_eliminated",
     "must_shoot"}

\* C1: the pot of every game is never negative, whatever the order of tips,
\* start-game, shoots and passes and of the handlers' continuations; a pass on
\* a pot smaller than PASS_BURN burns only what is left.
C1_PotNeverNegative ==
    \A s \in DOMAIN heap : heap[s].potBalance >= 0

\* a pass was accepted on a pot smaller than PASS_BURN and emptied it
C1_Witness ==
    /\ reply.res = "passed" /\ reply.amount < PASS_BURN
    /\ Stored(reply.channelId) /\ GameOf(reply.channelId).potBalance = 0

\* C2: transitions on one channel are serialized: while a shoot or pass
\* handler of a channel is suspended with writes to the GameState still ahead
\* of it, no tip, start-game, shoot or pass of that channel is handled.
C2_Serialized ==
    [][\A h \in BagToSet(inflight) :
          MidTransition(h) =>
              ~ /\ reply' # reply
                /\ reply'.channelId = h.channelId
                /\ reply'.ev \in {"tip", "start-game", "shoot", "pass"}]_vars

\* C3: a stored game whose status is active has at least one alive player.
C3_ActiveHasAlivePlayer ==
    \A c \in DOMAIN games :
        Stored(c) /\ GameOf(c).status = "active" => AliveCount(GameOf(c)) >= 1

\* C4: a finished game has exactly one alive player and its winner is that
\* player's identity; the winner of a waiting or active game is null.
C4_FinishedHasOneSurvivor ==
    \A s \in DOMAIN heap :
        LET game == heap[s] IN
        /\ game.status = "finished" =>
              /\ AliveCount(game) = 1
              /\ game.winner = game.players[getAlivePlayers(game)[1]].userId
        /\ game.status \in {"waiting", "active"} => game.winner = "null"

\* a game of three players has finished
C4_Witness ==
    \E c \in DOMAIN games :
        /\ Stored(c) /\ GameOf(c).status = "finished"
        /\ Len(GameOf(c).players) = 3
        /\ reply.res = "game_over"

\* C5: once a shoot has finished the game, a game-status query never finds a
\* finished game: it reports that no game is in progress.
C5_StatusNeverReportsFinished ==
    reply.ev = "game-status" => reply.res # "status_finished"

\* the first alive player after position p of the roster, wrapping around
NextAliveAfter(game, p) ==
    LET n == Len(game.players)
        at(d) == ((p - 1 + d) % n) + 1
        d0 == CHOOSE d \in 1..n :
                  /\ game.players[at(d)].alive
                  /\ \A e \in 1..(d - 1) : ~game.players[at(e)].alive
    IN at(d0)

\* C6: when a shoot, run with no other handler in flight, eliminates the
\* current player and at least two players remain alive, the new current
\* player is the first alive player after the eliminated one in roster order.
C6_TurnGoesToNextAlive ==
    [][\A h \in BagToSet(inflight) :
          /\ BagCardinality(inflight) = 1
          /\ ResumeBang(h)
          /\ heap'[h.game].status = "active"
          /\ AliveCount(heap'[h.game]) >= 2
          => getCurrentPlayer(heap'[h.game]) = NextAliveAfter(heap'[h.game], h.player)]_vars

\* C7: enrollment order is turn order: in an active game in which no one is
\* eliminated and no handler is suspended, after k completed actions the
\* current player is players[k mod n] (the first player after start-game).
C7_EnrollmentOrderIsTurnOrder ==
    \A c \in DOMAIN games :
        /\ Stored(c) /\ GameOf(c).status = "active" /\ AllAlive(GameOf(c))
        /\ \A h \in BagToSet(inflight) : h.game # games[c]
        => getCurrentPlayer(GameOf(c)) = completed[games[c]] + 1

\* a full round of three players has been played and the turn is back at
\* the first player
C7_Witness ==
    \E c \in DOMAIN games :
        /\ Stored(c) /\ GameOf(c).status = "active" /\ AllAlive(GameOf(c))
        /\ Len(GameOf(c).players) = 3
        /\ inflight = EmptyBag
        /\ reply.ev = "resume" /\ reply.res = "next_turn"
        /\ completed[games[c]] = 0

\* the other alive players, and the forced-shoot situation of the claim
OthersOf(game) ==
    SelectSeq(getAlivePlayers(game), LAMBDA i : i # getCurrentPlayer(game))

AllOthersPassed(game) ==
    /\ Len(OthersOf(game)) > 0
    /\ \A k \in 1..Len(OthersOf(game)) : game.players[OthersOf(game)[k]].lastAction = "pass"

\* C8: when every other alive player has passed, a pass by any identity that
\* matches the current player case-insensitively is rejected and changes
\* nothing, and a shoot by that identity is accepted.
C8_ForcedShootRule ==
    \A c \in DOMAIN games : \A u \in Users :
        /\ Stored(c) /\ GameOf(c).status = "active"
        /\ getCurrentPlayer(GameOf(c)) # 0
        /\ toLowerCase(GameOf(c).players[getCurrentPlayer(GameOf(c))].userId) = toLowerCase(u)
        /\ AllOthersPassed(GameOf(c))
        => /\ onPass(c, u).res = "must_shoot"
           /\ onPass(c, u).heap = heap
           /\ \A isDead \in BOOLEAN : onShoot(c, u, isDead).res \in {"bang", "click"}

\* C9: start-game succeeds only on a stored waiting game of at least two
\* players and makes it active with currentTurnIndex 0; with fewer than two
\* players it is rejected and the game stays waiting; every active game has
\* at least two players.
C9_StartNeedsTwoPlayers ==
    [][/\ reply'.res = "started" =>
              LET c == reply'.channelId IN
              /\ Stored(c) /\ games'[c] = games[c]
              /\ GameOf(c).status = "waiting" /\ Len(GameOf(c).players) >= 2
              /\ heap'[games[c]].status = "active"
              /\ heap'[games[c]].currentTurnIndex = 0
       /\ \A c \in DOMAIN games :
              /\ reply'.ev = "start-game" /\ reply'.channelId = c
              /\ Stored(c) /\ GameOf(c).status = "waiting" /\ Len(GameOf(c).players) < 2
              => reply'.res = "start_too_few" /\ heap'[games[c]].status = "waiting"
       /\ \A s \in DOMAIN heap :
              heap'[s].status = "active" => Len(heap'[s].players) >= 2]_vars

\* start-game was refused to a game of one player
C9_Witness ==
    /\ reply.res = "start_too_few"
    /\ Stored(reply.channelId) /\ Len(GameOf(reply.channelId).players) = 1

\* C10: a rejected tip, start-game, shoot or pass leaves the registry and
\* every field of every game as they were.
C10_RejectionChangesNothing ==
    [][reply'.res \in Rejections =>
          /\ games' = games
          /\ heap' = heap
          /\ inflight' = inflight]_vars

\* a pass was rejected under the forced-shoot rule
C10_Witness ==
    reply.res = "must_shoot"

\* the roster as enrolled: identities and payout addresses, in order
Roster(game) ==
    [i \in 1..Len(game.players) |->
        <<game.players[i].userId, game.players[i].smartAccountAddress>>]

IsPrefix(short, long) ==
    /\ Len(short) <= Len(long)
    /\ \A i \in 1..Len(short) : short[i] = long[i]

\* C11: an accepted tip appends exactly one player, alive and with no last
\* action, after the players already enrolled, which stay as they were, and
\* adds exactly the tip amount to the pot (so the pot of a waiting game is
\* the sum of its accepted tips).
C11_AcceptedTipEnrolls ==
    [][reply'.res = "tip_joined" =>
          LET c == reply'.channelId
              before == IF Stored(c) THEN GameOf(c) ELSE NewGame
              after == heap'[games'[c]]
              n == Len(before.players)
          IN
          /\ Len(after.players) = n + 1
          /\ \A i \in 1..n : after.players[i] = before.players[i]
          /\ after.players[n + 1].alive
          /\ after.players[n + 1].lastAction = "null"
          /\ after.potBalance = before.potBalance + reply'.amount
          /\ reply'.amount \in Amounts
          /\ after.status = "waiting"]_vars

\* a third player joined with the larger tip
C11_Witness ==
    /\ reply.res = "tip_joined" /\ reply.amount = 2
    /\ Stored(reply.channelId) /\ Len(GameOf(reply.channelId).players) = 3

\* a sender that the roster already holds, by identity or by payout address
Enrolled(game, userId, senderAddress) ==
    \E i \in 1..Len(game.players) :
        \/ game.players[i].userId = userId
        \/ toLowerCase(game.players[i].smartAccountAddress) = toLowerCase(senderAddress)

\* C12: no two players of a game have the same identity, nor the same payout
\* address up to letter case; a tip of an enrolled identity or address to a
\* waiting game is rejected as already joined and changes nothing.
C12_NoDuplicatePlayers ==
    /\ \A s \in DOMAIN heap :
          \A i, j \in 1..Len(heap[s].players) :
              i # j =>
                  /\ heap[s].players[i].userId # heap[s].players[j].userId
                  /\ toLowerCase(heap[s].players[i].smartAccountAddress)
                        # toLowerCase(heap[s].players[j].smartAccountAddress)
    /\ \A c \in DOMAIN games : \A sender \in Senders : \A amount \in Amounts :
          /\ Stored(c) /\ GameOf(c).status = "waiting"
          /\ Enrolled(GameOf(c), sender[1], sender[2])
          => LET out == onTip(c, sender[1], sender[2], botId, amount) IN
             /\ out.res = "tip_already_joined"
             /\ out.heap = heap
             /\ out.games = games

\* a tip was refused as already joined by a game that holds the address "Z",
\* which the sender of address "z" collides with
C12_Witness ==
    /\ reply.res = "tip_already_joined"
    /\ Stored(reply.channelId)
    /\ \E i \in 1..Len(GameOf(reply.channelId).players) :
           GameOf(reply.channelId).players[i].smartAccountAddress = "Z"
    /\ Len(GameOf(reply.channelId).players) = 2

\* C13: players are enrolled only while the game is waiting: the roster of
\* an active or finished game never changes, and the roster of a waiting
\* game only grows at its end.
C13_EnrollmentOnlyWhileWaiting ==
    [][\A s \in DOMAIN heap :
          heap[s].status # "free" /\ heap'[s].status # "free" =>
              /\ IsPrefix(Roster(heap[s]), Roster(heap'[s]))
              /\ heap[s].status \in {"active", "finished"}
                    => Roster(heap'[s]) = Roster(heap[s])
              /\ reply'.res = "tip_wrong_status" => heap'[s] = heap[s]]_vars

\* a tip arrived for an active game and was refused
C13_Witness ==
    /\ reply.res = "tip_wrong_status"
    /\ Stored(reply.channelId) /\ GameOf(reply.channelId).status = "active"

\* C14: the status of a game only moves from waiting to active, by
\* start-game, and from active to finished, by the continuation of a shoot
\* that finds one alive player.
C14_LinearLifecycle ==
    [][\A s \in DOMAIN heap :
          /\ heap[s].status # "free" /\ heap'[s].status # "free"
          /\ heap'[s].status # heap[s].status
          => \/ /\ heap[s].status = "waiting" /\ heap'[s].status = "active"
                /\ reply'.res = "started"
             \/ /\ heap[s].status = "active" /\ heap'[s].status = "finished"
                /\ reply'.res = "game_over"
                /\ AliveCount(heap'[s]) = 1]_vars

\* a game of two players went through waiting and active and is finished
C14_Witness ==
    \E c \in DOMAIN games :
        /\ Stored(c) /\ GameOf(c).status = "finished"
        /\ Len(GameOf(c).players) = 2
        /\ reply.res = "game_over"

\* ------------------------------------------- a second GameState object
\* The same handlers with room for one more GameState object than Spec has,
\* so that a fresh game can be created while a suspended handler still holds
\* the finished one; three tippers of one unit each, every shot is fatal and nobody passes.
FreshSenders == { <<"a", "x">>, <<"b", "y">>, <<"c", "z">> }
FreshUsers   == {"a", "b", "c"}

InitFresh ==
    /\ games = [c \in Channels |-> NoRef]
    /\ heap = [s \in 1..(MaxObjects + 1) |-> Free]
    /\ inflight = EmptyBag
    /\ reply = Reply("none", "none", "none", 0)
    /\ completed = [s \in 1..(MaxObjects + 1) |-> 0]
    /\ run = 0

NextFresh ==
    \/ \E c \in Channels, s \in FreshSenders : Tip(c, s[1], s[2], "BOT", 1)
    \/ \E c \in Channels : StartGame(c)
    \/ \E c \in Channels, u \in FreshUsers : Shoot(c, u, TRUE)
    \/ \E h \in BagToSet(inflight) : ResumeBang(h)
    \/ \E h \in BagToSet(inflight) : ResumeOver(h)

SpecFresh == InitFresh /\ [][NextFresh]_vars

\* C15: the removal that follows the end of a game only ever deletes the
\* game that finished: when a shoot handler runs games.delete, the entry of
\* its channel, if there is one, is the handler's own game, never a fresh
\* game that a later tip created.
C15_RemovalOnlyDeletesFinishedGame ==
    [][\A h \in BagToSet(inflight) :
          ResumeOver(h) /\ Stored(h.channelId) => games[h.channelId] = h.game]_vars

\* C16: in every stored active game there is exactly one current player, an
\* alive one, and a shoot or pass by an identity that differs from the
\* current player's (compared in lower case) is rejected as not-your-turn and
\* changes nothing.
C16_OnlyCurrentPlayerActs ==
    \A c \in DOMAIN games :
        Stored(c) /\ GameOf(c).status = "active" =>
            LET game == GameOf(c)
                currentPlayer == getCurrentPlayer(game)
            IN
            /\ currentPlayer # 0
            /\ game.players[currentPlayer].alive
            /\ \A u \in Users :
                  toLowerCase(u) # toLowerCase(game.players[currentPlayer].userId) =>
                      /\ onShoot(c, u, TRUE).res = "not_your_turn"
                      /\ onShoot(c, u, TRUE).heap = heap
                      /\ onPass(c, u).res = "not_your_turn"
                      /\ onPass(c, u).heap = heap

\* -------------------------------------------------------- a second channel
\* The same handlers serving two channels, two tippers of one unit each, every
\* shot fatal; the handlers of both channels interleave freely.
TwoChannels == {"ch", "ch2"}
TwoSenders  == { <<"a", "x">>, <<"b", "y">> }
TwoUsers    == {"a", "b"}

InitTwo ==
    /\ games = [c \in TwoChannels |-> NoRef]
    /\ heap = [s \in 1..(MaxObjects + 1) |-> Free]
    /\ inflight = EmptyBag
    /\ reply = Reply("none", "none", "none", 0)
    /\ completed = [s \in 1..(MaxObjects + 1) |-> 0]
    /\ run = 0

NextTwo ==
    \/ \E c \in TwoChannels, s \in TwoSenders : Tip(c, s[1], s[2], "BOT", 1)
    \/ \E c \in TwoChannels : StartGame(c)
    \/ \E c \in TwoChannels, u \in TwoUsers : Shoot(c, u, TRUE)
    \/ \E c \in TwoChannels, u \in TwoUsers : Pass(c, u)
    \/ \E c \in TwoChannels : GameStatus(c)
    \/ \E h \in BagToSet(inflight) : ResumeBang(h)
    \/ \E h \in BagToSet(inflight) : ResumeOver(h)
    \/ \E h \in BagToSet(inflight) : ResumePass(h)

SpecTwo == InitTwo /\ [][NextTwo]_vars

\* C17: channels are independent: two channels never share a GameState, and
\* a step of any handler of channel c leaves the registry entry and the
\* GameState of every other channel d unchanged.
C17_ChannelsIndependent ==
    [][\A c, d \in DOMAIN games :
          d # c =>
             /\ Stored(c) /\ Stored(d) => games[c] # games[d]
             /\ reply'.channelId = c =>
                   /\ games'[d] = games[d]
                   /\ Stored(d) => heap'[games[d]] = GameOf(d)]_vars

\* both channels hold a game, one of them active with a shoot suspended, and
\* the last step was an accepted pass in the other channel
C17_Witness ==
    /\ \A c \in DOMAIN games : Stored(c) /\ GameOf(c).status = "active"
    /\ reply.ev = "pass" /\ reply.res = "passed"
    /\ \E h \in BagToSet(inflight) : h.channelId # reply.channelId /\ h.pc = "bang"

\* C18: only a tip creates a game: a channel without a stored game gets one
\* only by a tip for that channel, the created game is waiting with
\* currentTurnIndex 0 and no winner, and start-game, shoot, pass, game-status,
\* join-game and help for a channel without a game leave the registry
\* unchanged.
C18_OnlyTipCreatesGame ==
    [][\A c \in DOMAIN games :
          ~Stored(c) =>
             /\ games'[c] # NoRef =>
                   /\ reply'.ev = "tip" /\ reply'.channelId = c
                   /\ \A d \in DOMAIN games : d # c => games'[d] = games[d]
                   /\ heap'[games'[c]].status = "waiting"
                   /\ heap'[games'[c]].currentTurnIndex = 0
                   /\ heap'[games'[c]].winner = "null"
             /\ /\ reply'.channelId = c
                /\ reply'.ev \in {"start-game", "shoot", "pass", "game-status",
                                  "join-game", "help"}
                => games' = games
             /\ /\ reply'.channelId = c /\ reply'.ev = "tip"
                /\ reply'.res # "tip_ignored"
                => games'[c] # NoRef]_vars

\* a tip has just created the game of its channel
C18_Witness ==
    /\ reply.ev = "tip" /\ reply.res = "tip_joined"
    /\ Stored(reply.channelId)
    /\ Len(GameOf(reply.channelId).players) = 1
    /\ GameOf(reply.channelId).currentTurnIndex = 0

\* C19: every write of a shoot or pass is committed before the handler's
\* first suspension: the step that resumes a suspended handler changes neither
\* the registry nor any GameState.
C19_NoWriteAfterSuspension ==
    [][reply'.ev = "resume" =>
          /\ games' = games
          /\ \A s \in DOMAIN heap :
                heap[s].status # "free" /\ heap'[s].status # "free"
                    => heap'[s] = heap[s]]_vars

\* C20: a rotation reset accompanies every shoot: right after an accepted
\* shoot, bang or click, every alive player of the game and the shooter have
\* lastAction null, and no player is ever left with lastAction 'shoot'.
C20_ShootResetsRotation ==
    [][/\ \A s \in DOMAIN heap : \A i \in 1..Len(heap'[s].players) :
             heap'[s].players[i].lastAction # "shoot"
       /\ reply'.ev = "shoot" /\ reply'.res \in {"bang", "click"} =>
             LET g == games[reply'.channelId]
                 shooter == getCurrentPlayer(heap[g])
             IN
             \A i \in 1..Len(heap'[g].players) :
                heap'[g].players[i].alive \/ i = shooter
                    => heap'[g].players[i].lastAction = "null"]_vars

\* a player passed and, with the pass still suspended, took a shot that
\* clicked: the pass mark is gone
C20_Witness ==
    /\ reply.ev = "shoot" /\ reply.res = "click"
    /\ \E h \in BagToSet(inflight) : h.pc = "pass" /\ h.game = games[reply.channelId]
    /\ \A i \in 1..Len(GameOf(reply.channelId).players) :
          GameOf(reply.channelId).players[i].lastAction = "null"

\* the smaller of two numbers
Min(x, y) == IF x <= y THEN x ELSE y

\* the alive flags of a game, in roster order
AliveFlags(game) == [i \in 1..Len(game.players) |-> game.players[i].alive]

\* C21: an accepted pass sets the acting player's lastAction to pass and
\* takes burn = min(potBalance, PASS_BURN) from the pot, nothing else, before
\* its message; after the message it advances currentTurnIndex by one position
\* among the alive players; neither part changes an alive flag, the status or
\* the winner. A pass on an empty pot burns 0 and is accepted.
C21_PassEffect ==
    [][/\ reply'.ev = "pass" /\ reply'.res = "passed" =>
             LET g == games[reply'.channelId]
                 game == heap[g]
                 actor == getCurrentPlayer(game)
                 burn == Min(game.potBalance, PASS_BURN)
             IN
             /\ reply'.amount = burn
             /\ heap'[g] = [game EXCEPT !.players[actor].lastAction = "pass",
                                        !.potBalance = game.potBalance - burn]
       /\ \A h \in BagToSet(inflight) :
             ResumePass(h) /\ heap'[h.game].status # "free" =>
                LET game == heap[h.game]
                    after == heap'[h.game]
                IN
                /\ AliveCount(game) > 0 =>
                      after.currentTurnIndex =
                          (game.currentTurnIndex + 1) % AliveCount(game)
                /\ AliveFlags(after) = AliveFlags(game)
                /\ after.status = game.status
                /\ after.winner = game.winner
                /\ after.potBalance = game.potBalance]_vars

\* a pass on an empty pot was accepted and burned nothing
C21_Witness ==
    /\ reply.ev = "pass" /\ reply.res = "passed" /\ reply.amount = 0
    /\ GameOf(reply.channelId).potBalance = 0
    /\ \E i \in 1..Len(GameOf(reply.channelId).players) :
          GameOf(reply.channelId).players[i].lastAction = "pass"

\* C22: a surviving shoot adds exactly GRIT_BONUS to the pot and eliminates
\* nobody, and after its message advances the turn by one alive position; an
\* eliminating shoot leaves the pot unchanged and sets alive = false for the
\* shooter only; when it ends the game, the pot the GAME OVER message reports
\* to the winner is the potBalance the game had before that shoot.
C22_ShootPotEffect ==
    [][/\ reply'.ev = "shoot" /\ reply'.res \in {"bang", "click"} =>
             LET g == games[reply'.channelId]
                 game == heap[g]
                 after == heap'[g]
                 shooter == getCurrentPlayer(game)
             IN
             /\ after.status = game.status /\ after.winner = game.winner
             /\ after.currentTurnIndex = game.currentTurnIndex
             /\ reply'.res = "click" =>
                   /\ after.potBalance = game.potBalance + GRIT_BONUS
                   /\ AliveFlags(after) = AliveFlags(game)
             /\ reply'.res = "bang" =>
                   /\ after.potBalance = game.potBalance
                   /\ AliveFlags(after) = [AliveFlags(game) EXCEPT ![shooter] = FALSE]
       /\ \A h \in BagToSet(inflight) :
             ResumeClick(h) /\ heap'[h.game].status # "free" =>
                /\ AliveCount(heap[h.game]) > 0 =>
                      heap'[h.game].currentTurnIndex =
                          (heap[h.game].currentTurnIndex + 1) % AliveCount(heap[h.game])
                /\ AliveFlags(heap'[h.game]) = AliveFlags(heap[h.game])
                /\ heap'[h.game].potBalance = heap[h.game].potBalance
       /\ \A h \in BagToSet(inflight) :
             ResumeBang(h) /\ reply'.res = "game_over" => reply'.amount = h.pot]_vars

\* C23: right after the forced-shoot trigger of a pass (every alive player had
\* passed once the turn was advanced) every alive player's lastAction is null
\* and the new current player is forced to shoot: a pass attempt of that
\* player, no shoot having occurred since, is rejected as must-shoot.
C23_ForcedShootTrigger ==
    \A c \in DOMAIN games :
        /\ reply.ev = "resume" /\ reply.res = "forced_shoot" /\ reply.channelId = c
        /\ Stored(c) /\ GameOf(c).status = "active"
        => LET game == GameOf(c)
               nextPlayer == getCurrentPlayer(game)
           IN
           /\ \A i \in 1..Len(game.players) :
                 game.players[i].alive => game.players[i].lastAction = "null"
           /\ nextPlayer # 0
           /\ onPass(c, game.players[nextPlayer].userId).res = "must_shoot"

\* what a step does to the alive flags of the game in slot s: a flag that is
\* false stays false, and a flag changes only by an eliminating shoot, which
\* clears the flag of the shooter and no other
FlagsOnlyClearedByShooter(s) ==
    /\ \A i \in 1..Len(heap[s].players) :
          heap'[s].players[i].alive => heap[s].players[i].alive
    /\ \A i \in 1..Len(heap[s].players) :
          heap'[s].players[i].alive # heap[s].players[i].alive =>
              /\ reply'.ev = "shoot" /\ reply'.res = "bang"
              /\ games[reply'.channelId] = s
              /\ i = getCurrentPlayer(heap[s])

\* C24 as stated: elimination is permanent, only the shooter of a losing shoot
\* is eliminated, no other event changes an alive flag, and the number of
\* alive players of a game never increases.
C24_AliveCountNeverIncreases ==
    [][\A s \in DOMAIN heap :
          heap[s].status # "free" /\ heap'[s].status # "free" =>
             /\ Len(heap'[s].players) >= Len(heap[s].players)
             /\ FlagsOnlyClearedByShooter(s)
             /\ AliveCount(heap'[s]) <= AliveCount(heap[s])]_vars

\* C24, amended: elimination is permanent, only the shooter of a losing shoot
\* is eliminated and no other event changes an alive flag; a player enrolls
\* alive; the number of alive players grows only by the enrollment of a tip
\* in a waiting game and never increases once the game has started.
C24_EliminationPermanent ==
    [][\A s \in DOMAIN heap :
          heap[s].status # "free" /\ heap'[s].status # "free" =>
             /\ Len(heap'[s].players) >= Len(heap[s].players)
             /\ FlagsOnlyClearedByShooter(s)
             /\ \A i \in (Len(heap[s].players) + 1)..Len(heap'[s].players) :
                   heap'[s].players[i].alive
             /\ LET before == AliveCount(heap[s])
                    after == AliveCount(heap'[s])
                IN
                after > before =>
                   /\ heap[s].status = "waiting" /\ reply'.res = "tip_joined"
                   /\ after = before + 1]_vars

\* a pass was accepted in a game with an eliminated player, who stays
\* eliminated
C24_Witness ==
    /\ reply.ev = "pass" /\ reply.res = "passed"
    /\ \E i \in 1..Len(GameOf(reply.channelId).players) :
          ~GameOf(reply.channelId).players[i].alive
    /\ AliveCount(GameOf(reply.channelId)) >= 2

\* ------------------------------------------------ handlers one at a time
\* The same handlers when the host delivers an event only after the handler
\* of the previous one has returned: no event is taken while a handler is
\* suspended.
Idle == inflight = EmptyBag

NextSerial ==
    \/ Idle /\ \E c \in Channels, s \in Senders, r \in Receivers, amount \in Amounts :
                   Tip(c, s[1], s[2], r, amount)
    \/ Idle /\ \E c \in Channels, ev \in {"join-game", "help"} : Info(c, ev)
    \/ Idle /\ \E c \in Channels : StartGame(c)
    \/ Idle /\ \E c \in Channels, u \in Users, isDead \in BOOLEAN : Shoot(c, u, isDead)
    \/ Idle /\ \E c \in Channels, u \in Users : Pass(c, u)
    \/ Idle /\ \E c \in Channels : GameStatus(c)
    \/ \E h \in BagToSet(inflight) : ResumeBang(h)
    \/ \E h \in BagToSet(inflight) : ResumeOver(h)
    \/ \E h \in BagToSet(inflight) : ResumeClick(h)
    \/ \E h \in BagToSet(inflight) : ResumePass(h)

SpecSerial == Init /\ [][NextSerial]_vars

\* C25: with handlers running one at a time, in an active game with n alive
\* players at most n - 1 passes are accepted in a row without a shoot in
\* between, and once n - 1 have been accepted no pass of the current player
\* is accepted.
C25_PassRunBounded ==
    \A c \in DOMAIN games :
        Stored(c) /\ GameOf(c).status = "active" =>
            /\ run <= AliveCount(GameOf(c)) - 1 \/ AliveCount(GameOf(c)) = 0
            /\ Idle /\ AliveCount(GameOf(c)) >= 2 /\ run >= AliveCount(GameOf(c)) - 1
                  => \A u \in Users : onPass(c, u).res # "passed"

\* ------------------------------------------------------------- progress
\* a suspended handler resumes: the image generation or message send returns
Resume ==
    \E h \in BagToSet(inflight) :
        ResumeBang(h) \/ ResumeOver(h) \/ ResumeClick(h) \/ ResumePass(h)

\* a shoot that is accepted, and one that is accepted and fatal
AcceptedShoot ==
    Idle /\ \E c \in Channels, u \in Users, isDead \in BOOLEAN :
                Shoot(c, u, isDead) /\ reply'.res \in {"bang", "click"}

AcceptedBang ==
    Idle /\ \E c \in Channels, u \in Users : Shoot(c, u, TRUE) /\ reply'.res = "bang"

\* the current player takes a turn: an accepted shoot or an accepted pass
CurrentPlayerActs ==
    \/ AcceptedShoot
    \/ Idle /\ \E c \in Channels, u \in Users : Pass(c, u) /\ reply'.res = "passed"

\* handlers one at a time; every await returns; the current player keeps
\* taking turns; Math.random() < 0.5 does not come out false forever
SpecLive ==
    /\ Init /\ [][NextSerial]_vars
    /\ WF_vars(Resume)
    /\ WF_vars(CurrentPlayerActs)
    /\ ([]<><<AcceptedShoot>>_vars => []<><<AcceptedBang>>_vars)

\* C26: under SpecLive every game that becomes active is eventually removed
\* from the registry, finished with its last survivor as winner, and in no
\* state of an active game with no handler suspended is every shoot rejected.
C26_GameEventuallyEnds ==
    /\ [](\A c \in DOMAIN games :
             Idle /\ Stored(c) /\ GameOf(c).status = "active"
                 => \E u \in Users : onShoot(c, u, TRUE).res = "bang")
    /\ \A c \in Channels :
          (Stored(c) /\ GameOf(c).status = "active")
              ~> (~Stored(c) /\ reply.res = "removed")

\* what the event answered by r contributes to the pot of its game
PotContribution(r) ==
    CASE r.ev = "tip" /\ r.res = "tip_joined" -> r.amount
      [] r.ev = "shoot" /\ r.res = "click"    -> GRIT_BONUS
      [] r.ev = "pass" /\ r.res = "passed"    -> 0 - r.amount
      [] OTHER                                -> 0

\* C27: pot conservation: a game is created with the pot of its first tip,
\* and every step changes the pot of a game by exactly the contribution of
\* its event, the amount of an accepted tip, GRIT_BONUS for a surviving shoot,
\* minus the burn of an accepted pass, and nothing for any other event, so
\* that potBalance is always tips + GRIT_BONUS * clicks - burns.
C27_PotConservation ==
    [][\A s \in DOMAIN heap :
          /\ heap[s].status = "free" /\ heap'[s].status # "free" =>
                heap'[s].potBalance = PotContribution(reply')
          /\ heap[s].status # "free" /\ heap'[s].status # "free" =>
                heap'[s].potBalance =
                    heap[s].potBalance
                    + (IF games[reply'.channelId] = s THEN PotContribution(reply') ELSE 0)]_vars

\* tips were paid in, passes burned all of them, and a surviving shoot has
\* just added the grit bonus to the empty pot
C27_Witness ==
    /\ reply.ev = "shoot" /\ reply.res = "click"
    /\ GameOf(reply.channelId).potBalance = GRIT_BONUS
    /\ run = 0

\* ------------------------------------------- identities spelled as enrolled
\* The handlers under every interleaving when each command carries a user id
\* spelled exactly as the player enrolled with.
ExactUsers == {"a", "b", "c"}

NextExact ==
    \/ \E c \in Channels, s \in Senders, r \in Receivers, amount \in Amounts :
           Tip(c, s[1], s[2], r, amount)
    \/ \E c \in Channels, ev \in {"join-game", "help"} : Info(c, ev)
    \/ \E c \in Channels : StartGame(c)
    \/ \E c \in Channels, u \in ExactUsers, isDead \in BOOLEAN : Shoot(c, u, isDead)
    \/ \E c \in Channels, u \in ExactUsers : Pass(c, u)
    \/ \E c \in Channels : GameStatus(c)
    \/ \E h \in BagToSet(inflight) : ResumeBang(h)
    \/ \E h \in BagToSet(inflight) : ResumeOver(h)
    \/ \E h \in BagToSet(inflight) : ResumeClick(h)
    \/ \E h \in BagToSet(inflight) : ResumePass(h)

SpecExact == Init /\ [][NextExact]_vars

\* C28: with identities spelled as enrolled the forced-shoot trigger is
\* unreachable: in every active stored game with at least two alive players
\* some alive player has lastAction other than pass, and no pass ever ends in
\* the branch that resets lastAction and announces the forced shoot.
C28_TriggerUnreachable ==
    /\ reply.res # "forced_shoot"
    /\ \A c \in DOMAIN games :
          Stored(c) /\ GameOf(c).status = "active" /\ AliveCount(GameOf(c)) >= 2
              => /\ ~checkForcedShoot(GameOf(c))
                 /\ \E i \in 1..Len(GameOf(c).players) :
                       /\ GameOf(c).players[i].alive
                       /\ GameOf(c).players[i].lastAction # "pass"

\* the pass that would complete a unanimous rotation has just been rejected
C28_Witness ==
    /\ reply.ev = "pass" /\ reply.res = "must_shoot"
    /\ Stored(reply.channelId) /\ AliveCount(GameOf(reply.channelId)) = 3
    /\ run = 2

\* C29: whenever a stored game is active and no handler of its channel is
\* suspended mid-transition, 0 <= currentTurnIndex < number of alive players,
\* so that the current player is the alive player at position
\* currentTurnIndex.
C29_TurnIndexInRange ==
    \A c \in DOMAIN games :
        /\ Stored(c) /\ GameOf(c).status = "active"
        /\ ~\E h \in BagToSet(inflight) : h.channelId = c /\ MidTransition(h)
        => /\ 0 <= GameOf(c).currentTurnIndex
           /\ GameOf(c).currentTurnIndex < AliveCount(GameOf(c))
           /\ getCurrentPlayer(GameOf(c))
                  = getAlivePlayers(GameOf(c))[GameOf(c).currentTurnIndex + 1]

====
